---- MODULE Spec2Model ----
(***************************************************************************)
(* Model of criContainerdService.RunPodSandbox (pkg/server/sandbox_run.go) *)
(* and of the collaborators it drives: the sandbox name registrar, the     *)
(* truncated-id index, the OS interface, the containerd execution service  *)
(* and the sandbox metadata store.                                         *)
(*                                                                         *)
(* Every call of RunPodSandbox is a process.  A step of a process is one   *)
(* call of a collaborator (each of them is atomic: the registrar, the id   *)
(* index and the store serialise their operations under a lock, the OS     *)
(* and the execution service are single requests), together with the       *)
(* local code around it.  Go's deferred functions are kept on a per-call   *)
(* stack and run last-in first-out when the call returns.                  *)
(***************************************************************************)
EXTENDS Naturals, Sequences, FiniteSets, TLC

\* ---------------------------------------------------------------- bounds

\* Number of operations a client applies to the registrar and the ID index
\* when they are exercised on their own.
MaxOps == 3

\* Number of RunPodSandbox calls that may run (concurrently).
NumCalls == 2

\* Number of failures the environment may inject in a run (a collaborator
\* call that fails, or a cancellation of a caller's context).
MaxFaults == 2

\* Length of a generated identity, over the alphabet IDChars.
IDLen == 2

Calls == 1 .. NumCalls

IDChars == {"a", "b"}

\* ------------------------------------------------------------ identities

\* The identities generateID can return: fixed-length strings.
IDs == [1 .. IDLen -> IDChars]

\* generateID returns a fresh identity at every call.  Identities are opaque
\* to the handler, so its results are taken from one enumeration of IDs: the
\* k-th result (k = 0, 1, ...) spells k in binary, lowest digit first.
generateID(k) ==
  [j \in 1 .. IDLen |-> IF (k \div (2 ^ (j - 1))) % 2 = 0 THEN "a" ELSE "b"]

\* The zero value of a string: no identity.
NoID == << >>

\* The sandbox configs a caller may submit.  Only the metadata block feeds
\* makeSandboxName; the two configs differ in their attempt counter.
Metadatas ==
  { [name |-> "n1", namespace |-> "ns", uid |-> "u1", attempt |-> a] : a \in 1 .. 2 }

Configs == { [metadata |-> m, hostname |-> "h1"] : m \in Metadatas }

NoConfig == [metadata |-> [attempt |-> 0]]

\* makeSandboxName: the metadata fields joined in a fixed order.
makeSandboxName(m) == << m.name, m.namespace, m.uid, m.attempt >>

\* getSandboxRootDir(rootDir, id): <rootDir>/sandboxes/<id>.
getSandboxRootDir(i) == << "sandboxes", i >>

\* getStreamingPipes(sandboxRootDir): the stdout and stderr pipes.
stdoutPipe(dir) == Append(dir, "stdout")

stderrPipe(dir) == Append(dir, "stderr")

\* p is a prefix of the path q.
IsPathPrefix(p, q) == Len(p) <= Len(q) /\ SubSeq(q, 1, Len(p)) = p

\* ------------------------------------------------- the container spec

\* The optional blocks of a config.  A block that is absent is a field the
\* record does not have; the generated getters return the zero value then.
NamespaceOptions ==
  [host_network : BOOLEAN, host_pid : BOOLEAN, host_ipc : BOOLEAN]

SecurityContexts ==
  { << >> } \cup { [namespace_options |-> o] : o \in NamespaceOptions }

\* A cgroup parent is a path, the empty path being the empty string.
CgroupParents == { << >>, << "a", "b" >> }

LinuxConfigs ==
  { [cgroup_parent |-> c] : c \in CgroupParents }
  \cup { [cgroup_parent |-> c, security_context |-> sc] :
           c \in CgroupParents, sc \in SecurityContexts }

\* The configs generateSandboxContainerSpec is applied to: with and without
\* each optional block.
GenConfigs ==
  LET base == { [metadata |-> m, hostname |-> h] :
                  m \in { x \in Metadatas : x.attempt = 1 }, h \in {"h1", "h2"} }
  IN base \cup { [metadata |-> b.metadata, hostname |-> b.hostname, linux |-> l] :
                   b \in base, l \in LinuxConfigs }

GetHostname(cfg) == IF "hostname" \in DOMAIN cfg THEN cfg.hostname ELSE ""

GetLinux(cfg) == IF "linux" \in DOMAIN cfg THEN cfg.linux ELSE << >>

GetCgroupParent(l) ==
  IF "cgroup_parent" \in DOMAIN l THEN l.cgroup_parent ELSE << >>

GetSecurityContext(l) ==
  IF "security_context" \in DOMAIN l THEN l.security_context ELSE << >>

GetNamespaceOptions(sc) ==
  IF "namespace_options" \in DOMAIN sc THEN sc.namespace_options ELSE << >>

GetHostNetwork(o) == IF "host_network" \in DOMAIN o THEN o.host_network ELSE FALSE

GetHostPid(o) == IF "host_pid" \in DOMAIN o THEN o.host_pid ELSE FALSE

GetHostIpc(o) == IF "host_ipc" \in DOMAIN o THEN o.host_ipc ELSE FALSE

relativeRootfsPath == << "rootfs" >>

pauseCommand == << "sh", "-c", "while true; do sleep 1000000000; done" >>

\* generate.New(): the default spec, with the five default namespaces.
generateNew ==
  [root |-> [path |-> << >>, readonly |-> FALSE],
   process_args |-> << "sh" >>,
   hostname |-> "",
   cgroups_path |-> << >>,
   namespaces |-> {"pid", "network", "ipc", "uts", "mount"}]

\* getCgroupsPath(cgroupsParent, id): the id joined to the parent.
getCgroupsPath(parent, i) == Append(parent, i)

RemoveLinuxNamespace(g, ns) == [g EXCEPT !.namespaces = @ \ {ns}]

\* The zero value of the handler's spec variable.
NoSpec == << >>

\* Mutant of generateSandboxContainerSpec: host-network also removes the
\* UTS namespace.
generateSandboxContainerSpec_HostUTS(i, cfg) ==
  LET g0 == [generateNew EXCEPT !.root.path = relativeRootfsPath,
                                !.process_args = pauseCommand,
                                !.root.readonly = TRUE,
                                !.hostname = GetHostname(cfg)]
      parent == GetCgroupParent(GetLinux(cfg))
      g1 == IF parent # << >>
            THEN [g0 EXCEPT !.cgroups_path = getCgroupsPath(parent, i)]
            ELSE g0
      nsOptions == GetNamespaceOptions(GetSecurityContext(GetLinux(cfg)))
      g2 == IF GetHostNetwork(nsOptions)
            THEN RemoveLinuxNamespace(RemoveLinuxNamespace(g1, "network"), "uts")
            ELSE g1
      g3 == IF GetHostPid(nsOptions) THEN RemoveLinuxNamespace(g2, "pid") ELSE g2
      g4 == IF GetHostIpc(nsOptions) THEN RemoveLinuxNamespace(g3, "ipc") ELSE g3
  IN g4

\* Mutant of generateSandboxContainerSpec: the cgroup path is set whatever
\* the cgroup parent is.
generateSandboxContainerSpec_AlwaysCgroup(i, cfg) ==
  LET g0 == [generateNew EXCEPT !.root.path = relativeRootfsPath,
                                !.process_args = pauseCommand,
                                !.root.readonly = TRUE,
                                !.hostname = GetHostname(cfg)]
      parent == GetCgroupParent(GetLinux(cfg))
      g1 == [g0 EXCEPT !.cgroups_path = getCgroupsPath(parent, i)]
      nsOptions == GetNamespaceOptions(GetSecurityContext(GetLinux(cfg)))
      g2 == IF GetHostNetwork(nsOptions) THEN RemoveLinuxNamespace(g1, "network") ELSE g1
      g3 == IF GetHostPid(nsOptions) THEN RemoveLinuxNamespace(g2, "pid") ELSE g2
      g4 == IF GetHostIpc(nsOptions) THEN RemoveLinuxNamespace(g3, "ipc") ELSE g3
  IN g4

\* Mutant of generateSandboxContainerSpec: the root of the container is not
\* made read-only.
generateSandboxContainerSpec_Writable(i, cfg) ==
  LET g0 == [generateNew EXCEPT !.root.path = relativeRootfsPath,
                                !.process_args = pauseCommand,
                                !.hostname = GetHostname(cfg)]
      parent == GetCgroupParent(GetLinux(cfg))
      g1 == IF parent # << >>
            THEN [g0 EXCEPT !.cgroups_path = getCgroupsPath(parent, i)]
            ELSE g0
      nsOptions == GetNamespaceOptions(GetSecurityContext(GetLinux(cfg)))
      g2 == IF GetHostNetwork(nsOptions) THEN RemoveLinuxNamespace(g1, "network") ELSE g1
      g3 == IF GetHostPid(nsOptions) THEN RemoveLinuxNamespace(g2, "pid") ELSE g2
      g4 == IF GetHostIpc(nsOptions) THEN RemoveLinuxNamespace(g3, "ipc") ELSE g3
  IN g4

\* Lines 195-267: the generator, one LET per group of statements.
generateSandboxContainerSpec(i, cfg) ==
  LET \* lines 201-213
      g0 == [generateNew EXCEPT !.root.path = relativeRootfsPath,
                                !.process_args = pauseCommand,
                                !.root.readonly = TRUE,
                                !.hostname = GetHostname(cfg)]
      \* lines 223-226
      parent == GetCgroupParent(GetLinux(cfg))
      g1 == IF parent # << >>
            THEN [g0 EXCEPT !.cgroups_path = getCgroupsPath(parent, i)]
            ELSE g0
      \* lines 232-250
      nsOptions == GetNamespaceOptions(GetSecurityContext(GetLinux(cfg)))
      g2 == IF GetHostNetwork(nsOptions) THEN RemoveLinuxNamespace(g1, "network") ELSE g1
      g3 == IF GetHostPid(nsOptions) THEN RemoveLinuxNamespace(g2, "pid") ELSE g2
      g4 == IF GetHostIpc(nsOptions) THEN RemoveLinuxNamespace(g3, "ipc") ELSE g3
  IN g4

\* ----------------------------------------------------------------- state

VARIABLES
  pc,                \* where each call stands
  id,                \* the identity generateID gave the call
  config,            \* the config of the call's request
  retErr,            \* the call's named result retErr ("nil": no error)
  retRes,            \* the call's named result retRes (NoID: nil response)
  ctxDone,           \* whether the call's context was cancelled
  defers,            \* the call's stack of deferred functions, top first
  fifo,              \* the call's two pipe handles
  trace,             \* the collaborator calls the call has made, in order
  sandboxNameIndex,  \* registrar: the set of <<name, id>> reservations
  sandboxIDIndex,    \* truncindex: the set of stored identities
  fs,                \* the paths that exist in the file system
  containers,        \* execution service: id -> "created" | "started"
  sandboxStore,      \* metadata store: id -> SandboxMetadata
  nextPid,           \* execution service: the pid of the next container
  generated,         \* the number of identities generateID has returned
  faults,            \* the failures injected so far
  spec,              \* the container spec the call generated (line 130)
  removed            \* the identities whose sandbox was removed

vars ==
  << pc, id, config, retErr, retRes, ctxDone, defers, fifo, trace,
     sandboxNameIndex, sandboxIDIndex, fs, containers, sandboxStore,
     nextPid, generated, faults, spec, removed >>

Ev(op, arg, ok) == [op |-> op, arg |-> arg, ok |-> ok]

Init ==
  /\ pc = [p \in Calls |-> "idle"]
  /\ id = [p \in Calls |-> NoID]
  /\ config = [p \in Calls |-> NoConfig]
  /\ retErr = [p \in Calls |-> "nil"]
  /\ retRes = [p \in Calls |-> NoID]
  /\ ctxDone = [p \in Calls |-> FALSE]
  /\ defers = [p \in Calls |-> << >>]
  /\ fifo = [p \in Calls |-> [i \in {"stdout", "stderr"} |-> "none"]]
  /\ trace = [p \in Calls |-> << >>]
  /\ sandboxNameIndex = {}
  /\ sandboxIDIndex = {}
  /\ fs = {}
  /\ containers = << >>
  /\ sandboxStore = << >>
  /\ nextPid = 101
  /\ generated = 0
  /\ faults = 0
  /\ spec = [p \in Calls |-> NoSpec]
  /\ removed = {}


\* ----------------------------------------------------------- environment

\* The environment may still inject a failure.
Injectable == faults < MaxFaults

\* Outcomes of a request to the execution service made with the call's
\* context (Create, Start, Delete): with the context cancelled the client
\* fails the request without performing it; otherwise the request succeeds
\* or fails (a failed request has no effect on the service).
RPCOutcomes(p) ==
  IF ctxDone[p] THEN {FALSE}
  ELSE {TRUE} \cup (IF Injectable THEN {FALSE} ELSE {})

\* Outcomes of OpenFifo, which takes the context but does not block.
FifoOutcomes(p) ==
  {TRUE} \cup (IF ctxDone[p] \/ Injectable THEN {FALSE} ELSE {})

\* Outcomes of an OS or store operation that takes no context.
OSOutcomes == {TRUE} \cup (IF Injectable THEN {FALSE} ELSE {})

\* The failure count after an operation: a failure that the cancelled
\* context explains is not an injected one.
Charge(p, ok, usesCtx) ==
  IF ok \/ (usesCtx /\ ctxDone[p]) THEN faults ELSE faults + 1

\* ------------------------------------------------------------ collaborators

\* The registrar maps the name to some identity.
RegistrarHas(index, name) == \E r \in index : r[1] = name

\* Mutant of RegistrarReserve: a name may be reserved again for the identity
\* that holds it.
RegistrarReserve_SameKey(index, name, key) ==
  IF RegistrarHas(index, name) /\ << name, key >> \notin index
  THEN [ok |-> FALSE, index |-> index]
  ELSE [ok |-> TRUE, index |-> index \cup {<< name, key >>}]

\* registrar.Reserve: fails when the name is mapped to any identity, and
\* maps it to the key otherwise.
RegistrarReserve(index, name, key) ==
  IF RegistrarHas(index, name)
  THEN [ok |-> FALSE, index |-> index]
  ELSE [ok |-> TRUE, index |-> index \cup {<< name, key >>}]

\* registrar.ReleaseByName: removes the mapping of the name, if any.
ReleaseByName(index, name) == { r \in index : r[1] # name }

\* truncindex.Add: fails on an empty or already stored identity.
TruncIndexAdd(index, i) ==
  IF i = NoID \/ i \in index
  THEN [ok |-> FALSE, index |-> index]
  ELSE [ok |-> TRUE, index |-> index \cup {i}]

\* Mutant of TruncIndexDelete: an identity that is not stored is an error.
TruncIndexDelete_Strict(index, i) ==
  IF i \in index
  THEN [ok |-> TRUE, index |-> index \ {i}]
  ELSE [ok |-> FALSE, index |-> index]

\* truncindex.Delete: removes the identity if it is stored, and is a no-op
\* otherwise.
TruncIndexDelete(index, i) == [ok |-> TRUE, index |-> index \ {i}]

\* The stored identities that start with the prefix.
Matches(index, prefix) ==
  { i \in index : Len(prefix) <= Len(i) /\ SubSeq(i, 1, Len(prefix)) = prefix }

\* truncindex.Get: the one stored identity that starts with the prefix;
\* "NotFound" when none does, "Ambiguous" when several do.
TruncIndexGet(index, prefix) ==
  LET found == Matches(index, prefix)
  IN IF found = {} THEN [err |-> "NotFound", id |-> NoID]
     ELSE IF Cardinality(found) > 1 THEN [err |-> "Ambiguous", id |-> NoID]
     ELSE [err |-> "nil", id |-> CHOOSE i \in found : TRUE]

\* registrar.ReleaseByKey: removes the mapping of the identity, if any.
ReleaseByKey(index, key) == { r \in index : r[2] # key }

\* os.RemoveAll: removes the path and everything below it.
RemoveAll(files, path) == { f \in files : ~IsPathPrefix(path, f) }

\* A function without the key k.
Without(f, k) == [x \in DOMAIN f \ {k} |-> f[x]]


\* getNetworkNamespace(pid): /proc/<pid>/ns/net.
getNetworkNamespace(pid) == << "proc", pid, "ns", "net" >>

\* ------------------------------------------------------------- the handler

Log(p, e) == trace' = [trace EXCEPT ![p] = Append(@, e)]

\* Mutant of Defer: the deferred functions run first-in first-out.
Defer_FIFO(p, f) == defers' = [defers EXCEPT ![p] = Append(@, f)]

\* A defer statement: the function is pushed on the call's stack.
Defer(p, f) == defers' = [defers EXCEPT ![p] = << f >> \o @]

\* A forward step failed: set retErr and return through the deferred
\* functions.
ReturnErr(p, err) ==
  /\ retErr' = [retErr EXCEPT ![p] = err]
  /\ pc' = [pc EXCEPT ![p] = IF defers[p] = << >> THEN "done" ELSE "return"]

Name(p) == makeSandboxName(config[p].metadata)

\* The configs a new call may submit: one that an earlier call submitted, or
\* the first one that none has (configs that differ only in the attempt
\* counter are interchangeable, so they are numbered in the order of their
\* first use).
Submittable(cfg) ==
  \A a \in 1 .. cfg.metadata.attempt - 1 :
    \E q \in Calls : pc[q] # "idle" /\ config[q].metadata.attempt = a

\* Mutant of Reserve: the error of sandboxNameIndex.Reserve is not checked.
Reserve_Unchecked(p, cfg) ==
  /\ pc[p] = "idle"
  /\ \A q \in Calls : q < p => pc[q] # "idle"
  /\ Submittable(cfg)
  /\ generated < 2 ^ IDLen
  /\ \E i \in {generateID(generated)} :
       LET name == makeSandboxName(cfg.metadata)
           r == RegistrarReserve(sandboxNameIndex, name, i)
       IN /\ id' = [id EXCEPT ![p] = i]
          /\ generated' = generated + 1
          /\ config' = [config EXCEPT ![p] = cfg]
          /\ sandboxNameIndex' = r.index
          /\ Log(p, Ev("Reserve", name, r.ok))
          /\ defers' = [defers EXCEPT ![p] = << "ReleaseByName" >>]
          /\ pc' = [pc EXCEPT ![p] = "idadd"]
  /\ UNCHANGED << spec, removed, retErr, retRes, ctxDone, fifo, sandboxIDIndex, fs,
                  containers, sandboxStore, nextPid, faults >>

\* Mutant of Reserve: the identity is added to the ID index before the name
\* is reserved.
Reserve_AfterIDAdd(p, cfg) ==
  /\ pc[p] = "idle"
  /\ \A q \in Calls : q < p => pc[q] # "idle"
  /\ Submittable(cfg)
  /\ generated < 2 ^ IDLen
  /\ \E i \in {generateID(generated)} :
       LET name == makeSandboxName(cfg.metadata)
           r == RegistrarReserve(sandboxNameIndex, name, i)
       IN /\ id' = [id EXCEPT ![p] = i]
          /\ generated' = generated + 1
          /\ config' = [config EXCEPT ![p] = cfg]
          /\ sandboxNameIndex' = r.index
          /\ sandboxIDIndex' = TruncIndexAdd(sandboxIDIndex, i).index
          /\ trace' = [trace EXCEPT ![p] =
                         << Ev("IDAdd", i, TRUE), Ev("Reserve", name, r.ok) >>]
          /\ IF r.ok
             THEN /\ defers' = [defers EXCEPT ![p] = << "IDDelete", "ReleaseByName" >>]
                  /\ pc' = [pc EXCEPT ![p] = "mkdir"]
                  /\ UNCHANGED retErr
             ELSE /\ retErr' = [retErr EXCEPT ![p] = "reserve"]
                  /\ pc' = [pc EXCEPT ![p] = "done"]
                  /\ UNCHANGED defers
  /\ UNCHANGED << spec, removed, retRes, ctxDone, fifo, fs, containers, sandboxStore,
                  nextPid, faults >>

\* Mutant of Reserve: the name is reserved with itself as the key, not the
\* identity.
Reserve_KeyedByName(p, cfg) ==
  /\ pc[p] = "idle"
  /\ \A q \in Calls : q < p => pc[q] # "idle"
  /\ Submittable(cfg)
  /\ generated < 2 ^ IDLen
  /\ \E i \in {generateID(generated)} :
       LET name == makeSandboxName(cfg.metadata)
           r == RegistrarReserve(sandboxNameIndex, name, name)
       IN /\ id' = [id EXCEPT ![p] = i]
          /\ generated' = generated + 1
          /\ config' = [config EXCEPT ![p] = cfg]
          /\ sandboxNameIndex' = r.index
          /\ Log(p, Ev("Reserve", name, r.ok))
          /\ IF r.ok
             THEN /\ defers' = [defers EXCEPT ![p] = << "ReleaseByName" >>]
                  /\ pc' = [pc EXCEPT ![p] = "idadd"]
                  /\ UNCHANGED retErr
             ELSE /\ retErr' = [retErr EXCEPT ![p] = "reserve"]
                  /\ pc' = [pc EXCEPT ![p] = "done"]
                  /\ UNCHANGED defers
  /\ UNCHANGED << spec, removed, retRes, ctxDone, fifo, sandboxIDIndex, fs, containers,
                  sandboxStore, nextPid, faults >>

\* Mutant of Reserve: the release of the name is deferred before the error
\* of sandboxNameIndex.Reserve is checked.
Reserve_DeferFirst(p, cfg) ==
  /\ pc[p] = "idle"
  /\ \A q \in Calls : q < p => pc[q] # "idle"
  /\ Submittable(cfg)
  /\ generated < 2 ^ IDLen
  /\ \E i \in {generateID(generated)} :
       LET name == makeSandboxName(cfg.metadata)
           r == RegistrarReserve(sandboxNameIndex, name, i)
       IN /\ id' = [id EXCEPT ![p] = i]
          /\ generated' = generated + 1
          /\ config' = [config EXCEPT ![p] = cfg]
          /\ sandboxNameIndex' = r.index
          /\ Log(p, Ev("Reserve", name, r.ok))
          /\ defers' = [defers EXCEPT ![p] = << "ReleaseByName" >>]
          /\ IF r.ok
             THEN /\ pc' = [pc EXCEPT ![p] = "idadd"]
                  /\ UNCHANGED retErr
             ELSE /\ retErr' = [retErr EXCEPT ![p] = "reserve"]
                  /\ pc' = [pc EXCEPT ![p] = "return"]
  /\ UNCHANGED << spec, removed, retRes, ctxDone, fifo, sandboxIDIndex, fs, containers,
                  sandboxStore, nextPid, faults >>

\* Lines 51-66: generateID, makeSandboxName, sandboxNameIndex.Reserve and
\* the deferred release of the name.  Calls are numbered in the order in
\* which they take this step.
Reserve(p, cfg) ==
  /\ pc[p] = "idle"
  /\ \A q \in Calls : q < p => pc[q] # "idle"
  /\ Submittable(cfg)
  /\ generated < 2 ^ IDLen
  /\ \E i \in {generateID(generated)} :
       LET name == makeSandboxName(cfg.metadata)
           r == RegistrarReserve(sandboxNameIndex, name, i)
       IN /\ id' = [id EXCEPT ![p] = i]
          /\ generated' = generated + 1
          /\ config' = [config EXCEPT ![p] = cfg]
          /\ sandboxNameIndex' = r.index
          /\ Log(p, Ev("Reserve", name, r.ok))
          /\ IF r.ok
             THEN /\ defers' = [defers EXCEPT ![p] = << "ReleaseByName" >>]
                  /\ pc' = [pc EXCEPT ![p] = "idadd"]
                  /\ UNCHANGED retErr
             ELSE /\ retErr' = [retErr EXCEPT ![p] = "reserve"]
                  /\ pc' = [pc EXCEPT ![p] = "done"]
                  /\ UNCHANGED defers
  /\ UNCHANGED << spec, removed, retRes, ctxDone, fifo, sandboxIDIndex, fs, containers,
                  sandboxStore, nextPid, faults >>

\* Mutant of IDAdd: the identity is not added to the ID index.
IDAdd_Skipped(p) ==
  /\ pc[p] = "idadd"
  /\ Log(p, Ev("IDAdd", id[p], TRUE))
  /\ Defer(p, "IDDelete")
  /\ pc' = [pc EXCEPT ![p] = "mkdir"]
  /\ UNCHANGED << spec, removed, id, config, retErr, retRes, ctxDone, fifo,
                  sandboxNameIndex, sandboxIDIndex, fs, containers,
                  sandboxStore, nextPid, generated, faults >>

\* Mutant of IDAdd: the delete of the id is deferred before the error of
\* sandboxIDIndex.Add is checked.
IDAdd_DeferFirst(p) ==
  /\ pc[p] = "idadd"
  /\ LET r == TruncIndexAdd(sandboxIDIndex, id[p])
     IN /\ sandboxIDIndex' = r.index
        /\ Log(p, Ev("IDAdd", id[p], r.ok))
        /\ Defer(p, "IDDelete")
        /\ IF r.ok
           THEN /\ pc' = [pc EXCEPT ![p] = "mkdir"]
                /\ UNCHANGED retErr
           ELSE /\ retErr' = [retErr EXCEPT ![p] = "idadd"]
                /\ pc' = [pc EXCEPT ![p] = "return"]
  /\ UNCHANGED << spec, removed, id, config, retRes, ctxDone, fifo, sandboxNameIndex, fs,
                  containers, sandboxStore, nextPid, generated, faults >>

\* Lines 67-76: sandboxIDIndex.Add and the deferred delete of the id.
IDAdd(p) ==
  /\ pc[p] = "idadd"
  /\ LET r == TruncIndexAdd(sandboxIDIndex, id[p])
     IN /\ sandboxIDIndex' = r.index
        /\ Log(p, Ev("IDAdd", id[p], r.ok))
        /\ IF r.ok
           THEN /\ Defer(p, "IDDelete")
                /\ pc' = [pc EXCEPT ![p] = "mkdir"]
                /\ UNCHANGED retErr
           ELSE /\ ReturnErr(p, "idadd")
                /\ UNCHANGED defers
  /\ UNCHANGED << spec, removed, id, config, retRes, ctxDone, fifo, sandboxNameIndex, fs,
                  containers, sandboxStore, nextPid, generated, faults >>

\* Lines 94-107: os.MkdirAll of the sandbox root directory and the deferred
\* RemoveAll.
MkdirAll(p) ==
  /\ pc[p] = "mkdir"
  /\ \E ok \in OSOutcomes :
       LET dir == getSandboxRootDir(id[p])
       IN /\ Log(p, Ev("MkdirAll", dir, ok))
          /\ faults' = Charge(p, ok, FALSE)
          /\ IF ok
             THEN /\ fs' = fs \cup {dir}
                  /\ Defer(p, "RemoveAll")
                  /\ pc' = [pc EXCEPT ![p] = "stdout"]
                  /\ UNCHANGED retErr
             ELSE /\ ReturnErr(p, "mkdir")
                  /\ UNCHANGED << fs, defers >>
  /\ UNCHANGED << spec, removed, id, config, retRes, ctxDone, fifo, sandboxNameIndex,
                  sandboxIDIndex, containers, sandboxStore, nextPid, generated >>

\* The pipe of the loop's current iteration (line 112).
PipePath(p, which) ==
  IF which = "stdout" THEN stdoutPipe(getSandboxRootDir(id[p]))
  ELSE stderrPipe(getSandboxRootDir(id[p]))

\* Mutant of OpenFifo: the loop ends after the stdout pipe.
OpenFifo_StdoutOnly(p) ==
  /\ pc[p] \in {"stdout", "stderr"}
  /\ \E ok \in FifoOutcomes(p) :
       /\ Log(p, Ev("OpenFifo", PipePath(p, pc[p]), ok))
       /\ faults' = Charge(p, ok, TRUE)
       /\ IF ok
          THEN /\ fs' = fs \cup {PipePath(p, pc[p])}
               /\ fifo' = [fifo EXCEPT ![p][pc[p]] = "open"]
               /\ Defer(p, IF pc[p] = "stdout" THEN "CloseStdout" ELSE "CloseStderr")
               /\ pc' = [pc EXCEPT ![p] = "create"]
               /\ UNCHANGED retErr
          ELSE /\ ReturnErr(p, "fifo")
               /\ UNCHANGED << fs, fifo, defers >>
  /\ UNCHANGED << spec, removed, id, config, retRes, ctxDone, sandboxNameIndex,
                  sandboxIDIndex, containers, sandboxStore, nextPid, generated >>

\* Mutant of OpenFifo: the Close of the opened handle is not deferred.
OpenFifo_NoClose(p) ==
  /\ pc[p] \in {"stdout", "stderr"}
  /\ \E ok \in FifoOutcomes(p) :
       /\ Log(p, Ev("OpenFifo", PipePath(p, pc[p]), ok))
       /\ faults' = Charge(p, ok, TRUE)
       /\ IF ok
          THEN /\ fs' = fs \cup {PipePath(p, pc[p])}
               /\ fifo' = [fifo EXCEPT ![p][pc[p]] = "open"]
               /\ pc' = [pc EXCEPT ![p] = IF pc[p] = "stdout" THEN "stderr" ELSE "create"]
               /\ UNCHANGED << retErr, defers >>
          ELSE /\ ReturnErr(p, "fifo")
               /\ UNCHANGED << fs, fifo, defers >>
  /\ UNCHANGED << spec, removed, id, config, retRes, ctxDone, sandboxNameIndex,
                  sandboxIDIndex, containers, sandboxStore, nextPid, generated >>

\* Lines 112-127, one iteration of the loop: os.OpenFifo (O_CREAT makes the
\* pipe), the deferred Close of the handle, and the start of the goroutine
\* that drains it.
OpenFifo(p) ==
  /\ pc[p] \in {"stdout", "stderr"}
  /\ \E ok \in FifoOutcomes(p) :
       /\ Log(p, Ev("OpenFifo", PipePath(p, pc[p]), ok))
       /\ faults' = Charge(p, ok, TRUE)
       /\ IF ok
          THEN /\ fs' = fs \cup {PipePath(p, pc[p])}
               /\ fifo' = [fifo EXCEPT ![p][pc[p]] = "open"]
               /\ Defer(p, IF pc[p] = "stdout" THEN "CloseStdout" ELSE "CloseStderr")
               /\ pc' = [pc EXCEPT ![p] = IF pc[p] = "stdout" THEN "stderr" ELSE "create"]
               /\ UNCHANGED retErr
          ELSE /\ ReturnErr(p, "fifo")
               /\ UNCHANGED << fs, fifo, defers >>
  /\ UNCHANGED << spec, removed, id, config, retRes, ctxDone, sandboxNameIndex,
                  sandboxIDIndex, containers, sandboxStore, nextPid, generated >>

\* Lines 122-126: a drain goroutine ends and closes its handle.  The read
\* end of a pipe stays open while the sandbox lives, so a drain ends this
\* early only on a read error (an injected failure) or because the pipe
\* was closed when the call's context was cancelled.
Drain(p, which) ==
  /\ fifo[p][which] = "open"
  /\ ctxDone[p] \/ Injectable
  /\ fifo' = [fifo EXCEPT ![p][which] = "closed"]
  /\ faults' = Charge(p, FALSE, TRUE)
  /\ UNCHANGED << spec, removed, pc, id, config, retErr, retRes, ctxDone, defers, trace,
                  sandboxNameIndex, sandboxIDIndex, fs, containers,
                  sandboxStore, nextPid, generated >>

\* Mutant of Create: the Delete of the container is not deferred.
Create_NoDefer(p) ==
  /\ pc[p] = "create"
  /\ \E ok \in RPCOutcomes(p) :
       /\ Log(p, Ev("Create", id[p], ok))
       /\ spec' = [spec EXCEPT ![p] = generateSandboxContainerSpec(id[p], config[p])]
       /\ faults' = Charge(p, ok, TRUE)
       /\ IF ok
          THEN /\ containers' = containers @@ (id[p] :> [status |-> "created", pid |-> nextPid])
               /\ nextPid' = nextPid + 1
               /\ pc' = [pc EXCEPT ![p] = "start"]
               /\ UNCHANGED << retErr, defers >>
          ELSE /\ ReturnErr(p, "create")
               /\ UNCHANGED << containers, nextPid, defers >>
  /\ UNCHANGED << removed, id, config, retRes, ctxDone, fifo, sandboxNameIndex,
                  sandboxIDIndex, fs, sandboxStore, generated >>

\* Mutant of Create: the request carries a newly generated identity, not
\* the identity of the call.
Create_FreshID(p) ==
  /\ pc[p] = "create"
  /\ generated < 2 ^ IDLen
  /\ \E ok \in RPCOutcomes(p) :
       /\ Log(p, Ev("Create", generateID(generated), ok))
       /\ spec' = [spec EXCEPT ![p] = generateSandboxContainerSpec(id[p], config[p])]
       /\ faults' = Charge(p, ok, TRUE)
       /\ IF ok
          THEN /\ containers' = containers @@
                     (generateID(generated) :> [status |-> "created", pid |-> nextPid])
               /\ nextPid' = nextPid + 1
               /\ Defer(p, "Delete")
               /\ pc' = [pc EXCEPT ![p] = "start"]
               /\ UNCHANGED retErr
          ELSE /\ ReturnErr(p, "create")
               /\ UNCHANGED << containers, nextPid, defers >>
  /\ generated' = generated + 1
  /\ UNCHANGED << removed, id, config, retRes, ctxDone, fifo, sandboxNameIndex,
                  sandboxIDIndex, fs, sandboxStore >>

\* Lines 129-175: generate and marshal the spec, containerService.Create
\* and the deferred Delete of the container.
Create(p) ==
  /\ pc[p] = "create"
  /\ \E ok \in RPCOutcomes(p) :
       /\ Log(p, Ev("Create", id[p], ok))
       /\ spec' = [spec EXCEPT ![p] = generateSandboxContainerSpec(id[p], config[p])]
       /\ faults' = Charge(p, ok, TRUE)
       /\ IF ok
          THEN /\ containers' = containers @@ (id[p] :> [status |-> "created", pid |-> nextPid])
               /\ nextPid' = nextPid + 1
               /\ Defer(p, "Delete")
               /\ pc' = [pc EXCEPT ![p] = "start"]
               /\ UNCHANGED retErr
          ELSE /\ ReturnErr(p, "create")
               /\ UNCHANGED << containers, nextPid, defers >>
  /\ UNCHANGED << removed, id, config, retRes, ctxDone, fifo, sandboxNameIndex,
                  sandboxIDIndex, fs, sandboxStore, generated >>

\* Mutant of Start: the error of containerService.Start is not checked.
Start_Unchecked(p) ==
  /\ pc[p] = "start"
  /\ \E ok \in RPCOutcomes(p) :
       /\ Log(p, Ev("Start", id[p], ok))
       /\ faults' = Charge(p, ok, TRUE)
       /\ containers' = IF ok THEN [containers EXCEPT ![id[p]].status = "started"]
                        ELSE containers
       /\ pc' = [pc EXCEPT ![p] = "store"]
  /\ UNCHANGED << spec, removed, id, config, retErr, retRes, ctxDone, defers, fifo,
                  sandboxNameIndex, sandboxIDIndex, fs, sandboxStore,
                  nextPid, generated >>

\* Lines 177-181: containerService.Start.
Start(p) ==
  /\ pc[p] = "start"
  /\ \E ok \in RPCOutcomes(p) :
       /\ Log(p, Ev("Start", id[p], ok))
       /\ faults' = Charge(p, ok, TRUE)
       /\ IF ok
          THEN /\ containers' = [containers EXCEPT ![id[p]].status = "started"]
               /\ pc' = [pc EXCEPT ![p] = "store"]
               /\ UNCHANGED retErr
          ELSE /\ ReturnErr(p, "start")
               /\ UNCHANGED containers
  /\ UNCHANGED << spec, removed, id, config, retRes, ctxDone, defers, fifo,
                  sandboxNameIndex, sandboxIDIndex, fs, sandboxStore,
                  nextPid, generated >>

\* Mutant of Meta: the network namespace is taken from the pid the service
\* will give its next container, not from the Create response.
Meta_WrongPid(p) ==
  [ID |-> id[p], Name |-> Name(p), Config |-> config[p], CreatedAt |-> 1,
   NetNS |-> getNetworkNamespace(nextPid)]

\* The record of lines 79-83 and 184-186.
Meta(p) ==
  [ID |-> id[p], Name |-> Name(p), Config |-> config[p], CreatedAt |-> 1,
   NetNS |-> getNetworkNamespace(containers[id[p]].pid)]

\* Mutant of StoreCreate: an error of sandboxStore.Create is returned
\* without running the deferred functions.
StoreCreate_NoCleanup(p) ==
  /\ pc[p] = "store"
  /\ \E ok \in (IF id[p] \in DOMAIN sandboxStore THEN {FALSE} ELSE OSOutcomes) :
       /\ Log(p, Ev("StoreCreate", id[p], ok))
       /\ faults' = Charge(p, ok, FALSE)
       /\ defers' = [defers EXCEPT ![p] = << >>]
       /\ pc' = [pc EXCEPT ![p] = "done"]
       /\ IF ok
          THEN /\ sandboxStore' = sandboxStore @@ (id[p] :> Meta(p))
               /\ retRes' = [retRes EXCEPT ![p] = id[p]]
               /\ UNCHANGED retErr
          ELSE /\ retErr' = [retErr EXCEPT ![p] = "store"]
               /\ UNCHANGED << sandboxStore, retRes >>
  /\ UNCHANGED << spec, removed, id, config, ctxDone, fifo, sandboxNameIndex,
                  sandboxIDIndex, fs, containers, nextPid, generated >>

\* Mutant of StoreCreate: the deferred release of the name does not test
\* retErr, so that the name is released on the successful return too.
StoreCreate_ReleasesName(p) ==
  /\ pc[p] = "store"
  /\ \E ok \in (IF id[p] \in DOMAIN sandboxStore THEN {FALSE} ELSE OSOutcomes) :
       /\ Log(p, Ev("StoreCreate", id[p], ok))
       /\ faults' = Charge(p, ok, FALSE)
       /\ IF ok
          THEN /\ sandboxStore' = sandboxStore @@ (id[p] :> Meta(p))
               /\ retRes' = [retRes EXCEPT ![p] = id[p]]
               /\ defers' = [defers EXCEPT ![p] = << >>]
               /\ pc' = [pc EXCEPT ![p] = "done"]
               /\ sandboxNameIndex' = ReleaseByName(sandboxNameIndex, Name(p))
               /\ UNCHANGED retErr
          ELSE /\ ReturnErr(p, "store")
               /\ UNCHANGED << sandboxStore, retRes, defers, sandboxNameIndex >>
  /\ UNCHANGED << spec, removed, id, config, ctxDone, fifo,
                  sandboxIDIndex, fs, containers, nextPid, generated >>

\* Lines 183-192: sandboxStore.Create and the successful return.  With
\* retErr nil every deferred function returns at once.
StoreCreate(p) ==
  /\ pc[p] = "store"
  /\ \E ok \in (IF id[p] \in DOMAIN sandboxStore THEN {FALSE} ELSE OSOutcomes) :
       /\ Log(p, Ev("StoreCreate", id[p], ok))
       /\ faults' = Charge(p, ok, FALSE)
       /\ IF ok
          THEN /\ sandboxStore' = sandboxStore @@ (id[p] :> Meta(p))
               /\ retRes' = [retRes EXCEPT ![p] = id[p]]
               /\ defers' = [defers EXCEPT ![p] = << >>]
               /\ pc' = [pc EXCEPT ![p] = "done"]
               /\ UNCHANGED retErr
          ELSE /\ ReturnErr(p, "store")
               /\ UNCHANGED << sandboxStore, retRes, defers >>
  /\ UNCHANGED << spec, removed, id, config, ctxDone, fifo, sandboxNameIndex,
                  sandboxIDIndex, fs, containers, nextPid, generated >>

\* ------------------------------------------------- the deferred functions

\* The deferred function on top of the call's stack, when it is returning.
Deferred(p) == IF pc[p] = "return" /\ defers[p] # << >> THEN Head(defers[p]) ELSE "none"

\* The deferred function on top has run: the next one runs, or the call
\* has returned.
Pop(p) ==
  /\ defers' = [defers EXCEPT ![p] = Tail(@)]
  /\ pc' = [pc EXCEPT ![p] = IF Tail(defers[p]) = << >> THEN "done" ELSE "return"]

\* Mutant of DeferDelete: the deferred function tests retErr == nil, so that
\* no Delete is requested after a failure.
DeferDelete_Inverted(p) ==
  /\ Deferred(p) = "Delete"
  /\ Pop(p)
  /\ UNCHANGED << spec, removed, id, config, retErr, retRes, ctxDone, fifo, trace,
                  sandboxNameIndex, sandboxIDIndex, fs, containers,
                  sandboxStore, nextPid, generated, faults >>

\* Lines 167-175: containerService.Delete with the call's context; an
\* error is logged.
DeferDelete(p) ==
  /\ Deferred(p) = "Delete"
  /\ \E ok \in RPCOutcomes(p) :
       /\ Log(p, Ev("Delete", id[p], ok))
       /\ faults' = Charge(p, ok, TRUE)
       /\ containers' = IF ok THEN Without(containers, id[p]) ELSE containers
  /\ Pop(p)
  /\ UNCHANGED << spec, removed, id, config, retErr, retRes, ctxDone, fifo,
                  sandboxNameIndex, sandboxIDIndex, fs, sandboxStore,
                  nextPid, generated >>

\* Mutant of DeferClose: the error of Close (the drain has closed the handle
\* already) becomes the error of the call.
DeferClose_Escalated(p) ==
  /\ Deferred(p) \in {"CloseStdout", "CloseStderr"}
  /\ LET which == IF Deferred(p) = "CloseStdout" THEN "stdout" ELSE "stderr"
     IN /\ Log(p, Ev("Close", PipePath(p, which), fifo[p][which] = "open"))
        /\ fifo' = [fifo EXCEPT ![p][which] = "closed"]
        /\ retErr' = [retErr EXCEPT ![p] = IF fifo[p][which] = "open" THEN @ ELSE "close"]
  /\ Pop(p)
  /\ UNCHANGED << spec, removed, id, config, retRes, ctxDone, sandboxNameIndex,
                  sandboxIDIndex, fs, containers, sandboxStore, nextPid, generated,
                  faults >>

\* Lines 117-121: Close of a pipe handle; its error (the drain has closed
\* the handle already) is dropped.
DeferClose(p) ==
  /\ Deferred(p) \in {"CloseStdout", "CloseStderr"}
  /\ LET which == IF Deferred(p) = "CloseStdout" THEN "stdout" ELSE "stderr"
     IN /\ Log(p, Ev("Close", PipePath(p, which), fifo[p][which] = "open"))
        /\ fifo' = [fifo EXCEPT ![p][which] = "closed"]
  /\ Pop(p)
  /\ UNCHANGED << spec, removed, id, config, retErr, retRes, ctxDone, sandboxNameIndex,
                  sandboxIDIndex, fs, containers, sandboxStore, nextPid, generated,
                  faults >>

\* Mutant of DeferRemoveAll: the error of os.RemoveAll is assigned to retErr.
DeferRemoveAll_Escalated(p) ==
  /\ Deferred(p) = "RemoveAll"
  /\ \E ok \in OSOutcomes :
       /\ Log(p, Ev("RemoveAll", getSandboxRootDir(id[p]), ok))
       /\ faults' = Charge(p, ok, FALSE)
       /\ fs' = IF ok THEN RemoveAll(fs, getSandboxRootDir(id[p])) ELSE fs
       /\ retErr' = [retErr EXCEPT ![p] = IF ok THEN @ ELSE "removeall"]
  /\ Pop(p)
  /\ UNCHANGED << spec, removed, id, config, retRes, ctxDone, fifo, sandboxNameIndex,
                  sandboxIDIndex, containers, sandboxStore, nextPid,
                  generated >>

\* Lines 99-107: os.RemoveAll of the sandbox root directory; an error is
\* logged.
DeferRemoveAll(p) ==
  /\ Deferred(p) = "RemoveAll"
  /\ \E ok \in OSOutcomes :
       /\ Log(p, Ev("RemoveAll", getSandboxRootDir(id[p]), ok))
       /\ faults' = Charge(p, ok, FALSE)
       /\ fs' = IF ok THEN RemoveAll(fs, getSandboxRootDir(id[p])) ELSE fs
  /\ Pop(p)
  /\ UNCHANGED << spec, removed, id, config, retErr, retRes, ctxDone, fifo,
                  sandboxNameIndex, sandboxIDIndex, containers, sandboxStore,
                  nextPid, generated >>

\* Lines 71-76: sandboxIDIndex.Delete; its error is dropped.
DeferIDDelete(p) ==
  /\ Deferred(p) = "IDDelete"
  /\ LET r == TruncIndexDelete(sandboxIDIndex, id[p])
     IN /\ Log(p, Ev("IDDelete", id[p], r.ok))
        /\ sandboxIDIndex' = r.index
  /\ Pop(p)
  /\ UNCHANGED << spec, removed, id, config, retErr, retRes, ctxDone, fifo,
                  sandboxNameIndex, fs, containers, sandboxStore, nextPid, generated,
                  faults >>

\* Mutant of DeferReleaseByName: the deferred function tests retErr == nil,
\* so that the name stays reserved after a failure.
DeferReleaseByName_Inverted(p) ==
  /\ Deferred(p) = "ReleaseByName"
  /\ Pop(p)
  /\ UNCHANGED << spec, removed, id, config, retErr, retRes, ctxDone, fifo, trace,
                  sandboxNameIndex, sandboxIDIndex, fs, containers,
                  sandboxStore, nextPid, generated, faults >>

\* Lines 61-66: sandboxNameIndex.ReleaseByName.
DeferReleaseByName(p) ==
  /\ Deferred(p) = "ReleaseByName"
  /\ Log(p, Ev("ReleaseByName", Name(p), TRUE))
  /\ sandboxNameIndex' = ReleaseByName(sandboxNameIndex, Name(p))
  /\ Pop(p)
  /\ UNCHANGED << spec, removed, id, config, retErr, retRes, ctxDone, fifo, sandboxIDIndex,
                  fs, containers, sandboxStore, nextPid, generated, faults >>

\* The caller cancels the context of a call in progress.  Once the call
\* has run its deferred Delete it never reads the context again, and a later
\* cancellation changes nothing.
Cancel(p) ==
  /\ pc[p] \notin {"idle", "done"}
  /\ pc[p] = "return" => Deferred(p) = "Delete"
  /\ ~ctxDone[p]
  /\ Injectable
  /\ ctxDone' = [ctxDone EXCEPT ![p] = TRUE]
  /\ faults' = faults + 1
  /\ UNCHANGED << spec, removed, pc, id, config, retErr, retRes, defers, fifo, trace,
                  sandboxNameIndex, sandboxIDIndex, fs, containers,
                  sandboxStore, nextPid, generated >>

Next ==
  \E p \in Calls :
    \/ \E cfg \in Configs : Reserve(p, cfg)
    \/ IDAdd(p)
    \/ MkdirAll(p)
    \/ OpenFifo(p)
    \/ \E which \in {"stdout", "stderr"} : Drain(p, which)
    \/ Create(p)
    \/ Start(p)
    \/ StoreCreate(p)
    \/ DeferDelete(p)
    \/ DeferClose(p)
    \/ DeferRemoveAll(p)
    \/ DeferIDDelete(p)
    \/ DeferReleaseByName(p)
    \/ Cancel(p)

Spec == Init /\ [][Next]_vars

\* ------------------------------------------------------ reading a call

\* The call has returned to its caller.
Returned(p) == pc[p] = "done"

Failed(p) == Returned(p) /\ retErr[p] # "nil"

Succeeded(p) == Returned(p) /\ retErr[p] = "nil"

\* The call has made the collaborator call op (and it succeeded).
Called(p, op) == \E k \in 1 .. Len(trace[p]) : trace[p][k].op = op

CalledOk(p, op) ==
  \E k \in 1 .. Len(trace[p]) : trace[p][k].op = op /\ trace[p][k].ok

CalledFailed(p, op) ==
  \E k \in 1 .. Len(trace[p]) : trace[p][k].op = op /\ ~trace[p][k].ok

\* The name is reserved for the call's identity.
HoldsName(p) == << Name(p), id[p] >> \in sandboxNameIndex

\* The call's last collaborator call, made in this step.
Makes(p, op, ok) ==
  /\ Len(trace'[p]) = Len(trace[p]) + 1
  /\ trace'[p][Len(trace'[p])].op = op
  /\ trace'[p][Len(trace'[p])].ok = ok

\* ---------------------------------------------------------------- claims

\* C1: when a call has returned an error, whichever step failed, its name
\* is not reserved for its identity and its identity is not in the ID index.
C1_NameAndIDReleased ==
  \A p \in Calls :
    Failed(p) => ~HoldsName(p) /\ id[p] \notin sandboxIDIndex

\* C1 witness: a call that had reserved its name and added its identity has
\* returned an error.
C1_Witness ==
  \E p \in Calls : Failed(p) /\ CalledOk(p, "Reserve") /\ CalledOk(p, "IDAdd")

\* C2 as stated: after a failed call no container of its identity and no
\* sandbox root directory remains, whatever Delete and RemoveAll returned.
C2_Original ==
  \A p \in Calls :
    Failed(p) =>
      /\ id[p] \notin DOMAIN containers
      /\ getSandboxRootDir(id[p]) \notin fs

\* C2 amended: after a failed call the container it created remains exactly
\* when the compensating Delete failed, and the sandbox root directory
\* remains exactly when the compensating RemoveAll failed; both compensations
\* were requested whenever their forward step had succeeded.
C2_CleanupUnlessCompensationFails ==
  \A p \in Calls :
    Failed(p) =>
      /\ CalledOk(p, "Create") => Called(p, "Delete")
      /\ CalledOk(p, "MkdirAll") => Called(p, "RemoveAll")
      /\ id[p] \in DOMAIN containers <=> CalledFailed(p, "Delete")
      /\ getSandboxRootDir(id[p]) \in fs <=> CalledFailed(p, "RemoveAll")

\* C2 witness: a call failed after Create, its Delete and RemoveAll both
\* succeeded, and nothing of it remains.
C2_Witness ==
  \E p \in Calls :
    /\ Failed(p)
    /\ CalledOk(p, "Create")
    /\ CalledOk(p, "Delete")
    /\ CalledOk(p, "RemoveAll")
    /\ id[p] \notin DOMAIN containers
    /\ getSandboxRootDir(id[p]) \notin fs

\* The calls whose configs derive the name n.
CallsOf(n) == { p \in Calls : pc[p] # "idle" /\ Name(p) = n }

Names == { makeSandboxName(m) : m \in Metadatas }

Reservations(n) == { r \in sandboxNameIndex : r[1] = n }

RecordsOf(n) == { i \in DOMAIN sandboxStore : sandboxStore[i].Name = n }

\* C3 as stated: once several calls with the same name have all returned,
\* exactly one of them has succeeded, every other one has failed with the
\* name conflict, the registrar holds at most one mapping of the name and
\* the store exactly one record with it.
C3_Original ==
  \A n \in Names :
    (Cardinality(CallsOf(n)) >= 2 /\ \A p \in CallsOf(n) : Returned(p)) =>
      /\ Cardinality({ p \in CallsOf(n) : Succeeded(p) }) = 1
      /\ \A p \in CallsOf(n) : Failed(p) => retErr[p] = "reserve"
      /\ Cardinality(Reservations(n)) <= 1
      /\ Cardinality(RecordsOf(n)) = 1

\* C3 amended: among the calls with the same name at most one succeeds, the
\* registrar never holds more than one mapping of the name, and the store
\* holds one record with the name per call that succeeded; once they have
\* all returned, and if none of them failed at a step other than the
\* reservation, exactly one has succeeded and every other one has failed
\* with the name conflict.
C3_AtMostOneWinner ==
  \A n \in Names :
    LET calls == CallsOf(n)
        winners == Cardinality({ p \in calls : Succeeded(p) })
        held == Cardinality(Reservations(n))
    IN /\ winners <= 1
       /\ held <= 1
       /\ Cardinality(RecordsOf(n)) = winners
       /\ (/\ calls # {}
           /\ \A p \in calls : Returned(p) /\ retErr[p] \in {"nil", "reserve"})
          => winners = 1 /\ held = 1

\* C3 witness: every call was made with the same name, all have returned,
\* one has succeeded and the others have failed with the name conflict.
C3_Witness ==
  \E n \in Names :
    /\ CallsOf(n) = Calls
    /\ \A p \in Calls : Returned(p)
    /\ \E p \in Calls :
         /\ Succeeded(p)
         /\ \A q \in Calls \ {p} : retErr[q] = "reserve"

\* The operations of the call's trace, in order.
Ops(p) == [k \in 1 .. Len(trace[p]) |-> trace[p][k].op]

\* Nothing in the file system, the execution service or the store carries
\* the identity.
Untouched(i) ==
  /\ i \notin sandboxIDIndex
  /\ \A f \in fs : ~IsPathPrefix(getSandboxRootDir(i), f)
  /\ i \notin DOMAIN containers
  /\ i \notin DOMAIN sandboxStore

\* C4: a call whose name reservation fails returns having made no other
\* collaborator call: no ID index, OS, execution service or store operation.
C4_ReserveFailureTouchesNothing ==
  \A p \in Calls :
    CalledFailed(p, "Reserve") =>
      /\ Failed(p)
      /\ retErr[p] = "reserve"
      /\ Ops(p) = << "Reserve" >>
      /\ Untouched(id[p])

\* C4 witness: a call has lost the reservation while the call that holds
\* the name is in progress.
C4_Witness ==
  \E p, q \in Calls :
    /\ CalledFailed(p, "Reserve")
    /\ Returned(p)
    /\ pc[q] \notin {"idle", "done"}
    /\ HoldsName(q)
    /\ Name(q) = Name(p)

\* The container of the call's identity was created and started by it.
CreatedAndStarted(p) == CalledOk(p, "Create") /\ CalledOk(p, "Start")

C6_StartFailureCleansUp ==
  \A p \in Calls :
    CalledFailed(p, "Start") =>
      /\ CalledOk(p, "Create")
      /\ retErr[p] = "start"
      /\ ~Called(p, "StoreCreate")
      /\ id[p] \notin DOMAIN sandboxStore
      /\ Returned(p) =>
           /\ retRes[p] = NoID
           /\ \E k \in 1 .. Len(trace[p]) :
                trace[p][k].op = "Delete" /\ trace[p][k].arg = id[p]
           /\ \E k \in 1 .. Len(trace[p]) :
                /\ trace[p][k].op = "RemoveAll"
                /\ trace[p][k].arg = getSandboxRootDir(id[p])
           /\ ~HoldsName(p)
           /\ id[p] \notin sandboxIDIndex

\* C6 witness: a call whose Start failed has returned.
C6_Witness == \E p \in Calls : CalledFailed(p, "Start") /\ Returned(p)

\* The forward steps that have a compensation, and the compensations.
Compensable == {"Reserve", "IDAdd", "MkdirAll", "OpenFifo", "Create"}

CompOps == {"ReleaseByName", "IDDelete", "RemoveAll", "Close", "Delete"}

ForwardOps == Compensable \cup {"Start", "StoreCreate"}

\* The compensation of a completed forward step.
CompOf(e) ==
  [op |-> CASE e.op = "Reserve" -> "ReleaseByName"
            [] e.op = "IDAdd" -> "IDDelete"
            [] e.op = "MkdirAll" -> "RemoveAll"
            [] e.op = "OpenFifo" -> "Close"
            [] e.op = "Create" -> "Delete",
   arg |-> e.arg]

IsCompleted(e) == e.op \in Compensable /\ e.ok

IsCompensation(e) == e.op \in CompOps

IsFailedForward(e) == e.op \in ForwardOps /\ ~e.ok

\* The call's completed compensable steps, and its compensations, in order.
Completed(p) == SelectSeq(trace[p], IsCompleted)

Compensations(p) == SelectSeq(trace[p], IsCompensation)

Reverse(sq) == [k \in 1 .. Len(sq) |-> sq[Len(sq) + 1 - k]]

\* C7: on a failing call the compensations of the completed steps run in the
\* reverse order of the forward steps, after the failing step and all of
\* them before the call returns: Delete, Close of stderr, Close of stdout,
\* RemoveAll, ID index Delete, release of the name.
C7_ReverseOrder ==
  \A p \in Calls :
    /\ \A k \in 1 .. Len(trace[p]) :
         IsCompensation(trace[p][k]) =>
            /\ retErr[p] # "nil"
            /\ k > 1
            /\ IsCompensation(trace[p][k - 1]) \/ IsFailedForward(trace[p][k - 1])
    /\ Failed(p) =>
         LET comps == Compensations(p)
             steps == Completed(p)
         IN /\ [k \in 1 .. Len(comps) |-> [op |-> comps[k].op, arg |-> comps[k].arg]]
               = Reverse([k \in 1 .. Len(steps) |-> CompOf(steps[k])])
            /\ CalledOk(p, "Create") =>
                 [k \in 1 .. Len(comps) |-> << comps[k].op, comps[k].arg >>]
                 = << << "Delete", id[p] >>,
                      << "Close", PipePath(p, "stderr") >>,
                      << "Close", PipePath(p, "stdout") >>,
                      << "RemoveAll", getSandboxRootDir(id[p]) >>,
                      << "IDDelete", id[p] >>,
                      << "ReleaseByName", Name(p) >> >>

\* C7 witness: a call that had created its container has failed and returned.
C7_Witness ==
  \E p \in Calls : Failed(p) /\ CalledOk(p, "Create") /\ Len(Compensations(p)) = 6

\* The error RunPodSandbox returns for a failed forward step.
ErrOf(op) ==
  CASE op = "Reserve" -> "reserve"
    [] op = "IDAdd" -> "idadd"
    [] op = "MkdirAll" -> "mkdir"
    [] op = "OpenFifo" -> "fifo"
    [] op = "Create" -> "create"
    [] op = "Start" -> "start"
    [] op = "StoreCreate" -> "store"

FailedForward(p) == SelectSeq(trace[p], IsFailedForward)

\* C8: the error of a failed call is the error of the first (and only)
\* forward step that failed and its response is nil; a compensation that
\* fails neither changes the error nor keeps the remaining compensations
\* from running.
C8_FirstErrorSurfaced ==
  \A p \in Calls :
    LET failed == FailedForward(p)
    IN /\ retErr[p] = "nil" => failed = << >>
       /\ retErr[p] # "nil" =>
            /\ Len(failed) = 1
            /\ retErr[p] = ErrOf(failed[1].op)
            /\ retRes[p] = NoID
       /\ Failed(p) => Len(Compensations(p)) = Len(Completed(p))

\* C8 witness: a call has returned after its compensating Delete and
\* RemoveAll both failed.
C8_Witness ==
  \E p \in Calls :
    /\ Failed(p)
    /\ CalledFailed(p, "Delete")
    /\ CalledFailed(p, "RemoveAll")
    /\ Called(p, "ReleaseByName")

\* C9 as stated: when the store's Create fails after Create and Start
\* succeeded, the error is returned and no compensation runs: the container
\* remains started and no record exists.
C9_Original ==
  \A p \in Calls :
    (Returned(p) /\ CalledFailed(p, "StoreCreate")) =>
      /\ retErr[p] = "store"
      /\ Compensations(p) = << >>
      /\ id[p] \in DOMAIN containers
      /\ containers[id[p]].status = "started"
      /\ id[p] \notin DOMAIN sandboxStore

\* C9 amended: when the store's Create fails after Create and Start
\* succeeded, the error is returned after the whole compensation chain has
\* run, as for any other failing step: Delete is requested (the container
\* remains started only if that Delete fails), both pipes are closed,
\* RemoveAll is applied, the identity and the name are released; no record
\* exists.
C9_StoreFailureCompensates ==
  \A p \in Calls :
    (Returned(p) /\ CalledFailed(p, "StoreCreate")) =>
      /\ retErr[p] = "store"
      /\ CreatedAndStarted(p)
      /\ LET comps == Compensations(p)
         IN [k \in 1 .. Len(comps) |-> comps[k].op]
            = << "Delete", "Close", "Close", "RemoveAll", "IDDelete", "ReleaseByName" >>
      /\ id[p] \in DOMAIN containers <=> CalledFailed(p, "Delete")
      /\ id[p] \in DOMAIN containers => containers[id[p]].status = "started"
      /\ id[p] \notin DOMAIN sandboxStore
      /\ ~HoldsName(p)
      /\ id[p] \notin sandboxIDIndex

\* C9 witness: a call whose store Create failed has returned, its container
\* deleted by the compensation.
C9_Witness ==
  \E p \in Calls :
    /\ Returned(p)
    /\ CalledFailed(p, "StoreCreate")
    /\ CalledOk(p, "Delete")
    /\ id[p] \notin DOMAIN containers

\* C10: when the context of a call is cancelled while it is in progress and
\* nothing else goes wrong, the compensations of the steps completed before
\* the cancellation run and take effect: the created container is deleted,
\* the directory removed, the identity and the name released.
C10_CompensationSurvivesCancel ==
  \A p \in Calls :
    (Failed(p) /\ ctxDone[p] /\ faults = 1 /\ CalledOk(p, "Create")) =>
      /\ CalledOk(p, "Delete")
      /\ id[p] \notin DOMAIN containers
      /\ getSandboxRootDir(id[p]) \notin fs
      /\ id[p] \notin sandboxIDIndex
      /\ ~HoldsName(p)

\* ------------------------------------------- the generator on its own

\* generateSandboxContainerSpec applied to an identity and a config, as
\* TestGenerateSandboxContainerSpec does: the first call holds the inputs.
GenInit ==
  \E i \in IDs, cfg \in GenConfigs :
    /\ pc = [p \in Calls |-> IF p = 1 THEN "generate" ELSE "idle"]
    /\ id = [p \in Calls |-> IF p = 1 THEN i ELSE NoID]
    /\ config = [p \in Calls |-> IF p = 1 THEN cfg ELSE NoConfig]
    /\ retErr = [p \in Calls |-> "nil"]
    /\ retRes = [p \in Calls |-> NoID]
    /\ ctxDone = [p \in Calls |-> FALSE]
    /\ defers = [p \in Calls |-> << >>]
    /\ fifo = [p \in Calls |-> [w \in {"stdout", "stderr"} |-> "none"]]
    /\ trace = [p \in Calls |-> << >>]
    /\ sandboxNameIndex = {}
    /\ sandboxIDIndex = {}
    /\ fs = {}
    /\ containers = << >>
    /\ sandboxStore = << >>
    /\ nextPid = 101
    /\ generated = 0
    /\ faults = 0
    /\ spec = [p \in Calls |-> NoSpec]
    /\ removed = {}

GenerateSpec(p) ==
  /\ pc[p] = "generate"
  /\ spec' = [spec EXCEPT ![p] = generateSandboxContainerSpec(id[p], config[p])]
  /\ pc' = [pc EXCEPT ![p] = "done"]
  /\ UNCHANGED << id, config, retErr, retRes, ctxDone, defers, fifo, trace,
                  sandboxNameIndex, sandboxIDIndex, fs, containers,
                  sandboxStore, nextPid, generated, faults, removed >>

GenNext == \E p \in Calls : GenerateSpec(p)

SpecGen == GenInit /\ [][GenNext]_vars

\* The spec of the call has been generated.
Generated(p) == spec[p] # NoSpec

\* The config's host-namespace flag f, false when any block on the way to it
\* is absent.
HostFlag(cfg, f) ==
  /\ "linux" \in DOMAIN cfg
  /\ "security_context" \in DOMAIN cfg.linux
  /\ "namespace_options" \in DOMAIN cfg.linux.security_context
  /\ cfg.linux.security_context.namespace_options[f]

\* The config's cgroup parent, empty when the Linux block is absent.
CgroupParentOf(cfg) ==
  IF "linux" \in DOMAIN cfg THEN cfg.linux.cgroup_parent ELSE << >>

\* C14: the generated spec contains the network namespace iff host-network
\* is false, the PID namespace iff host-pid is false, the IPC namespace iff
\* host-ipc is false (an absent Linux block, security context or namespace
\* options counting as false), and always the UTS and mount namespaces: each
\* flag decides its own namespace only.
C14_NamespaceMapping ==
  \A p \in Calls :
    Generated(p) =>
      /\ "network" \in spec[p].namespaces <=> ~HostFlag(config[p], "host_network")
      /\ "pid" \in spec[p].namespaces <=> ~HostFlag(config[p], "host_pid")
      /\ "ipc" \in spec[p].namespaces <=> ~HostFlag(config[p], "host_ipc")
      /\ {"uts", "mount"} \subseteq spec[p].namespaces
      /\ spec[p].namespaces \subseteq {"network", "pid", "ipc", "uts", "mount"}

\* C14 witness: a spec generated for host-network true, host-pid and
\* host-ipc false has lost the network namespace only.
C14_Witness ==
  \E p \in Calls :
    /\ Generated(p)
    /\ HostFlag(config[p], "host_network")
    /\ ~HostFlag(config[p], "host_pid")
    /\ ~HostFlag(config[p], "host_ipc")
    /\ spec[p].namespaces = {"pid", "ipc", "uts", "mount"}

\* C15: the cgroup path of the generated spec is the cgroup parent joined
\* with the identity when the parent is non-empty and is not set when the
\* parent is empty or the Linux block absent; every config with the same
\* cgroup parent gives the same path for the identity.
C15_CgroupPath ==
  \A p \in Calls :
    Generated(p) =>
      /\ spec[p].cgroups_path =
           IF CgroupParentOf(config[p]) # << >>
           THEN Append(CgroupParentOf(config[p]), id[p])
           ELSE << >>
      /\ \A cfg \in GenConfigs :
           CgroupParentOf(cfg) = CgroupParentOf(config[p]) =>
             generateSandboxContainerSpec(id[p], cfg).cgroups_path = spec[p].cgroups_path

\* C15 witness: a spec generated for a config with a cgroup parent carries
\* the parent joined with the identity.
C15_Witness ==
  \E p \in Calls :
    /\ Generated(p)
    /\ CgroupParentOf(config[p]) = << "a", "b" >>
    /\ spec[p].cgroups_path = << "a", "b", id[p] >>

\* C16: whatever the config, the root path of the generated spec is the
\* fixed relative root, the root is read-only and the process arguments are
\* the fixed pause command; the hostname is the config's hostname.
C16_FixedRoot ==
  \A p \in Calls :
    Generated(p) =>
      /\ spec[p].root.path = << "rootfs" >>
      /\ spec[p].root.readonly
      /\ spec[p].process_args = << "sh", "-c", "while true; do sleep 1000000000; done" >>
      /\ spec[p].hostname = config[p].hostname

\* C16 witness: a spec generated for a config with a Linux block and the
\* second hostname.
C16_Witness ==
  \E p \in Calls :
    /\ Generated(p)
    /\ "linux" \in DOMAIN config[p]
    /\ config[p].hostname = "h2"
    /\ spec[p].hostname = "h2"
    /\ spec[p].root.readonly

\* ------------------------------- the registrar and the ID index on their own

\* The identities a client of the two indexes uses.
ClientIDs == { generateID(k) : k \in 0 .. 2 }

\* A client (the first call stands for it, and its trace is the log of its
\* operations) applies any operation to the registrar or the ID index.
CanApply == Len(trace[1]) < MaxOps

ClientReserve(n, k) ==
  /\ CanApply
  /\ LET r == RegistrarReserve(sandboxNameIndex, n, k)
     IN /\ sandboxNameIndex' = r.index
        /\ Log(1, Ev("Reserve", << n, k >>, r.ok))
  /\ UNCHANGED << pc, id, config, retErr, retRes, ctxDone, defers, fifo,
                  sandboxIDIndex, fs, containers, sandboxStore, nextPid,
                  generated, faults, spec, removed >>

ClientReleaseByName(n) ==
  /\ CanApply
  /\ sandboxNameIndex' = ReleaseByName(sandboxNameIndex, n)
  /\ Log(1, Ev("ReleaseByName", n, TRUE))
  /\ UNCHANGED << pc, id, config, retErr, retRes, ctxDone, defers, fifo,
                  sandboxIDIndex, fs, containers, sandboxStore, nextPid,
                  generated, faults, spec, removed >>

ClientAdd(i) ==
  /\ CanApply
  /\ LET r == TruncIndexAdd(sandboxIDIndex, i)
     IN /\ sandboxIDIndex' = r.index
        /\ Log(1, Ev("IDAdd", i, r.ok))
  /\ UNCHANGED << pc, id, config, retErr, retRes, ctxDone, defers, fifo,
                  sandboxNameIndex, fs, containers, sandboxStore, nextPid,
                  generated, faults, spec, removed >>

ClientDelete(i) ==
  /\ CanApply
  /\ LET r == TruncIndexDelete(sandboxIDIndex, i)
     IN /\ sandboxIDIndex' = r.index
        /\ Log(1, Ev("IDDelete", i, r.ok))
  /\ UNCHANGED << pc, id, config, retErr, retRes, ctxDone, defers, fifo,
                  sandboxNameIndex, fs, containers, sandboxStore, nextPid,
                  generated, faults, spec, removed >>

IndexNext ==
  \/ \E n \in Names, k \in ClientIDs : ClientReserve(n, k)
  \/ \E n \in Names : ClientReleaseByName(n)
  \/ \E i \in ClientIDs : ClientAdd(i)
  \/ \E i \in ClientIDs : ClientDelete(i)

SpecIndex == Init /\ [][IndexNext]_vars

\* The client's step applies the operation e.
Applies(e) == trace'[1] = Append(trace[1], e)

\* C17: a Reserve of a name that is mapped to any identity, the passed one
\* included, fails and leaves the registrar unchanged; a Reserve of a free
\* name succeeds and adds the one mapping; so a name never maps to more than
\* one identity, and it is free again once released.
C17_ReserveContract ==
  /\ [](\A n \in Names : Cardinality(Reservations(n)) <= 1)
  /\ [][\A n \in Names :
          /\ \A k \in ClientIDs, ok \in BOOLEAN :
               Applies(Ev("Reserve", << n, k >>, ok)) =>
                 IF \E i \in ClientIDs : << n, i >> \in sandboxNameIndex
                 THEN ~ok /\ sandboxNameIndex' = sandboxNameIndex
                 ELSE ok /\ sandboxNameIndex' = sandboxNameIndex \cup {<< n, k >>}
          /\ Applies(Ev("ReleaseByName", n, TRUE)) =>
               /\ Reservations(n)' = {}
               /\ \A m \in Names \ {n} : Reservations(m)' = Reservations(m)]_vars

\* C17 witness: a name was reserved for an identity, and a second Reserve of
\* the name for the same identity has failed.
C17_Witness ==
  \E n \in Names, k \in ClientIDs :
    /\ Len(trace[1]) >= 2
    /\ trace[1][1] = Ev("Reserve", << n, k >>, TRUE)
    /\ trace[1][2] = Ev("Reserve", << n, k >>, FALSE)
    /\ sandboxNameIndex = {<< n, k >>}

\* C18: ReleaseByName of a name that is not reserved and ID index Delete of
\* an identity that is not stored return no error and change neither the
\* registrar nor the index; after either operation, applying it again
\* changes nothing.
C18_IdempotentCompensation ==
  [][/\ \A n \in Names, ok \in BOOLEAN :
          Applies(Ev("ReleaseByName", n, ok)) =>
            /\ ok
            /\ Reservations(n) = {} => sandboxNameIndex' = sandboxNameIndex
            /\ ReleaseByName(sandboxNameIndex', n) = sandboxNameIndex'
            /\ sandboxIDIndex' = sandboxIDIndex
     /\ \A i \in ClientIDs, ok \in BOOLEAN :
          Applies(Ev("IDDelete", i, ok)) =>
            /\ ok
            /\ i \notin sandboxIDIndex => sandboxIDIndex' = sandboxIDIndex
            /\ TruncIndexDelete(sandboxIDIndex', i) = [ok |-> TRUE, index |-> sandboxIDIndex']
            /\ sandboxNameIndex' = sandboxNameIndex]_vars

\* C18 witness: a Delete of an identity that was never stored, and a name
\* released twice in a row.
C18_Witness ==
  \E n \in Names, i \in ClientIDs :
    /\ Len(trace[1]) = 3
    /\ trace[1][1] = Ev("IDDelete", i, TRUE)
    /\ trace[1][2] = Ev("ReleaseByName", n, TRUE)
    /\ trace[1][3] = Ev("ReleaseByName", n, TRUE)

\* ----------------------------------------- one caller, run, stop and remove

\* No RunPodSandbox call is in progress.
Quiet == \A q \in Calls : pc[q] \in {"idle", "done"}

\* The sandbox the call created is in the store.
Stored(p) == Succeeded(p) /\ id[p] \in DOMAIN sandboxStore

\* StopPodSandbox of the sandbox the call created: the container is deleted
\* from the execution service; the record stays.
StopPodSandbox(p) ==
  /\ Quiet
  /\ Stored(p)
  /\ id[p] \in DOMAIN containers
  /\ containers' = Without(containers, id[p])
  /\ UNCHANGED << pc, id, config, retErr, retRes, ctxDone, defers, fifo, trace,
                  sandboxNameIndex, sandboxIDIndex, fs, sandboxStore, nextPid,
                  generated, faults, spec, removed >>

\* RemovePodSandbox of a stopped sandbox: its root directory and its record
\* are removed, its identity leaves the ID index and its name is released.
RemovePodSandbox(p) ==
  /\ Quiet
  /\ Stored(p)
  /\ id[p] \notin DOMAIN containers
  /\ fs' = RemoveAll(fs, getSandboxRootDir(id[p]))
  /\ sandboxStore' = Without(sandboxStore, id[p])
  /\ sandboxIDIndex' = TruncIndexDelete(sandboxIDIndex, id[p]).index
  /\ sandboxNameIndex' = ReleaseByKey(sandboxNameIndex, id[p])
  /\ removed' = removed \cup {id[p]}
  /\ UNCHANGED << pc, id, config, retErr, retRes, ctxDone, defers, fifo, trace,
                  containers, nextPid, generated, faults, spec >>

\* One caller, as in TestSandboxOperations: it makes its calls one after the
\* other, and stops and removes sandboxes between them.
SeqNext ==
  \E p \in Calls :
    \/ Quiet /\ \E cfg \in Configs : Reserve(p, cfg)
    \/ IDAdd(p)
    \/ MkdirAll(p)
    \/ OpenFifo(p)
    \/ \E which \in {"stdout", "stderr"} : Drain(p, which)
    \/ Create(p)
    \/ Start(p)
    \/ StoreCreate(p)
    \/ DeferDelete(p)
    \/ DeferClose(p)
    \/ DeferRemoveAll(p)
    \/ DeferIDDelete(p)
    \/ DeferReleaseByName(p)
    \/ Cancel(p)
    \/ StopPodSandbox(p)
    \/ RemovePodSandbox(p)

SpecSeq == Init /\ [][SeqNext]_vars

\* The call has succeeded and its sandbox was not removed since.
Live(p) == Succeeded(p) /\ id[p] \notin removed

\* The prefixes of an identity, the empty one and the identity included.
Prefixes(i) == { SubSeq(i, 1, k) : k \in 0 .. Len(i) }

\* C11: while the sandbox of a successful call exists, ID index Get returns
\* the returned identity for the identity itself and for every prefix of it
\* that no other stored identity starts with.
C11_ResolvableByPrefix ==
  \A p \in Calls :
    Live(p) =>
      /\ TruncIndexGet(sandboxIDIndex, retRes[p]) = [err |-> "nil", id |-> retRes[p]]
      /\ \A pre \in Prefixes(retRes[p]) :
           (\A other \in sandboxIDIndex \ {retRes[p]} : ~IsPathPrefix(pre, other))
             => TruncIndexGet(sandboxIDIndex, pre) = [err |-> "nil", id |-> retRes[p]]

\* C11 witness: two sandboxes exist; the identity of one has a proper prefix
\* that only it starts with, and a shorter one that both start with.
C11_Witness ==
  \E p, q \in Calls :
    /\ p # q
    /\ Live(p)
    /\ Live(q)
    /\ \E pre \in Prefixes(retRes[p]) \ {retRes[p]} :
         /\ ~IsPathPrefix(pre, retRes[q])
         /\ TruncIndexGet(sandboxIDIndex, pre).id = retRes[p]
    /\ \E pre \in Prefixes(retRes[p]) :
         /\ IsPathPrefix(pre, retRes[q])
         /\ TruncIndexGet(sandboxIDIndex, pre).err = "Ambiguous"

\* C12: while the sandbox of a successful call exists, the store holds under
\* the returned identity a record with that identity, the submitted config,
\* a non-zero CreatedAt and, as long as the execution service reports the
\* container, the network namespace of the container's pid; the record's
\* name is reserved for the identity, and a Reserve of it for any other
\* identity fails.
C12_RecordOfSuccess ==
  \A p \in Calls :
    Live(p) =>
      /\ retRes[p] \in DOMAIN sandboxStore
      /\ LET rec == sandboxStore[retRes[p]]
         IN /\ rec.ID = retRes[p]
            /\ rec.Config = config[p]
            /\ rec.CreatedAt # 0
            /\ retRes[p] \in DOMAIN containers =>
                 rec.NetNS = << "proc", containers[retRes[p]].pid, "ns", "net" >>
            /\ << rec.Name, retRes[p] >> \in sandboxNameIndex
            /\ \A other \in IDs \ {retRes[p]} :
                 ~RegistrarReserve(sandboxNameIndex, rec.Name, other).ok

\* C12 witness: a sandbox exists with its container, and a later call with
\* the same config has failed to reserve the name.
C12_Witness ==
  \E p, q \in Calls :
    /\ p < q
    /\ Live(p)
    /\ retRes[p] \in DOMAIN containers
    /\ config[q] = config[p]
    /\ retErr[q] = "reserve"
    /\ sandboxStore[retRes[p]].Config = config[p]

\* The requests the execution service has received from the call.
ServiceCalls(p) ==
  LET IsServiceCall(e) == e.op \in {"Create", "Start", "Delete"}
      calls == SelectSeq(trace[p], IsServiceCall)
  IN [k \in 1 .. Len(calls) |-> calls[k].op]

\* C13: a successful call has made exactly these collaborator calls, in this
\* order and each with success: Reserve of the name, ID index Add, MkdirAll
\* of the sandbox root directory, OpenFifo of its stdout pipe, OpenFifo of
\* its stderr pipe, Create, Start and the store's Create; the execution
\* service has received Create and Start from it and no Delete.
C13_OrderOnSuccess ==
  \A p \in Calls :
    Succeeded(p) =>
      /\ trace[p] =
           << Ev("Reserve", makeSandboxName(config[p].metadata), TRUE),
              Ev("IDAdd", retRes[p], TRUE),
              Ev("MkdirAll", << "sandboxes", retRes[p] >>, TRUE),
              Ev("OpenFifo", << "sandboxes", retRes[p], "stdout" >>, TRUE),
              Ev("OpenFifo", << "sandboxes", retRes[p], "stderr" >>, TRUE),
              Ev("Create", retRes[p], TRUE),
              Ev("Start", retRes[p], TRUE),
              Ev("StoreCreate", retRes[p], TRUE) >>
      /\ ServiceCalls(p) = << "Create", "Start" >>

\* C13 witness: a call has succeeded after an earlier call failed and was
\* cleaned up by a Delete.
C13_Witness ==
  \E p, q \in Calls :
    /\ q < p
    /\ Failed(q)
    /\ CalledOk(q, "Delete")
    /\ Succeeded(p)
    /\ Len(trace[p]) = 8
    /\ ServiceCalls(p) = << "Create", "Start" >>

\* Every collaborator call the call has made succeeded.
Unhindered(p) == \A k \in 1 .. Len(trace[p]) : trace[p][k].ok

\* The call takes its first step (it reserves its name) in this step.
Starts(p) == pc[p] = "idle" /\ pc'[p] # "idle"

HandlerStep(p) ==
  \/ IDAdd(p)
  \/ MkdirAll(p)
  \/ OpenFifo(p)
  \/ Create(p)
  \/ Start(p)
  \/ StoreCreate(p)
  \/ DeferDelete(p)
  \/ DeferClose(p)
  \/ DeferRemoveAll(p)
  \/ DeferIDDelete(p)
  \/ DeferReleaseByName(p)

\* The outcome of a returned call as the results of its collaborator calls
\* other than Close determine it: the error and the response, and what is
\* left of it in the registrar, the ID index, the file system, the execution
\* service and the store.
OutcomeAsDetermined(p) ==
  LET failed == FailedForward(p)
      err == IF failed = << >> THEN "nil" ELSE ErrOf(failed[1].op)
      dir == getSandboxRootDir(id[p])
      kept == CalledOk(p, "MkdirAll") /\ ~CalledOk(p, "RemoveAll")
      opened(path) ==
        \E k \in 1 .. Len(trace[p]) : trace[p][k] = Ev("OpenFifo", path, TRUE)
  IN /\ retErr[p] = err
     /\ retRes[p] = IF err = "nil" THEN id[p] ELSE NoID
     /\ err # "nil" =>
          /\ ~HoldsName(p)
          /\ id[p] \notin sandboxIDIndex
          /\ dir \in fs <=> kept
          /\ stdoutPipe(dir) \in fs <=> kept /\ opened(stdoutPipe(dir))
          /\ stderrPipe(dir) \in fs <=> kept /\ opened(stderrPipe(dir))
          /\ id[p] \in DOMAIN containers <=>
               CalledOk(p, "Create") /\ ~CalledOk(p, "Delete")
          /\ id[p] \notin DOMAIN sandboxStore
     /\ (err = "nil" /\ id[p] \notin removed) =>
          /\ HoldsName(p)
          /\ id[p] \in sandboxIDIndex
          /\ {dir, stdoutPipe(dir), stderrPipe(dir)} \subseteq fs
          /\ id[p] \in DOMAIN containers => containers[id[p]].status = "started"
          /\ id[p] \in DOMAIN sandboxStore

\* The handler has closed the pipe handle, or has just opened it, in this
\* step.
TouchesFifo(p) ==
  /\ Len(trace'[p]) = Len(trace[p]) + 1
  /\ trace'[p][Len(trace'[p])].op \in {"OpenFifo", "Close"}

\* C20: the outcome of a returned call is the one the results of its
\* collaborator calls determine, whenever and however its drains have ended;
\* a call in progress can always take its next step, whatever the drains do;
\* the end of a drain changes nothing but the pipe handle, and the handler
\* changes a handle only by opening it or by the deferred Close of a
\* failing call.
C20_DrainsDoNotMatter ==
  /\ [](\A p \in Calls :
          /\ Returned(p) => OutcomeAsDetermined(p)
          /\ pc[p] \notin {"idle", "done"} => ENABLED HandlerStep(p)
          /\ Succeeded(p) => ~Called(p, "Close"))
  /\ [][\A p \in Calls :
          fifo'[p] # fifo[p] =>
            \/ TouchesFifo(p)
            \/ /\ trace' = trace
               /\ UNCHANGED << pc, id, config, retErr, retRes, ctxDone, defers,
                               sandboxNameIndex, sandboxIDIndex, fs, containers,
                               sandboxStore, spec, removed >>
               /\ \A w \in {"stdout", "stderr"} :
                    fifo'[p][w] # fifo[p][w] =>
                      fifo[p][w] = "open" /\ fifo'[p][w] = "closed"]_vars

\* C20 witness: a failed call has returned; the drain of one of its pipes
\* had ended before the deferred Close, the other one had not.
C20_Witness ==
  \E p \in Calls :
    /\ Failed(p)
    /\ trace[p][Len(trace[p])].op = "ReleaseByName"
    /\ CalledFailed(p, "Close")
    /\ CalledOk(p, "Close")

\* ------------------------------ concurrent calls under a cgroup parent

\* The configs of Configs, each with a Linux block that names a cgroup
\* parent.
CgroupConfigs ==
  { [metadata |-> c.metadata, hostname |-> c.hostname,
     linux |-> [cgroup_parent |-> << "kubepods" >>]] : c \in Configs }

\* Concurrent RunPodSandbox calls, as in Next, whose configs name a cgroup
\* parent.  The end of a drain changes nothing but the state of a pipe
\* handle, which nothing checked under this specification reads, and is
\* left out.
ParNext ==
  \E p \in Calls :
    \/ \E cfg \in CgroupConfigs : Reserve(p, cfg)
    \/ IDAdd(p)
    \/ MkdirAll(p)
    \/ OpenFifo(p)
    \/ Create(p)
    \/ Start(p)
    \/ StoreCreate(p)
    \/ DeferDelete(p)
    \/ DeferClose(p)
    \/ DeferRemoveAll(p)
    \/ DeferIDDelete(p)
    \/ DeferReleaseByName(p)
    \/ Cancel(p)

SpecPar == Init /\ [][ParNext]_vars

\* The identity an argument of a collaborator call carries: the argument
\* itself, the last component of the sandbox root directory, or the
\* component before the pipe's name.
IdentityIn(e) ==
  CASE e.op \in {"IDAdd", "IDDelete", "Create", "Start", "Delete", "StoreCreate"} -> e.arg
    [] e.op \in {"MkdirAll", "RemoveAll"} -> e.arg[Len(e.arg)]
    [] e.op \in {"OpenFifo", "Close"} -> e.arg[Len(e.arg) - 1]

\* The identities of the calls that have started.
Issued == { id[q] : q \in { r \in Calls : pc[r] # "idle" } }

\* C21: within one call a single identity is used everywhere: the key of the
\* name's reservation, the entry of the ID index, the last component of the
\* sandbox root directory, the identity in the spec's cgroup path, the ID of
\* the Create, Start and Delete requests, the key of the record and the
\* identity returned are all the identity generateID gave the call, and no
\* other call uses it.
C21_OneIdentity ==
  /\ \A p \in Calls :
       pc[p] # "idle" =>
         /\ \A q \in Calls : (q # p /\ pc[q] # "idle") => id[q] # id[p]
         /\ \A k \in 1 .. Len(trace[p]) :
              trace[p][k].op # "Reserve" /\ trace[p][k].op # "ReleaseByName"
                => IdentityIn(trace[p][k]) = id[p]
         /\ (CalledOk(p, "Reserve") /\ ~Called(p, "ReleaseByName")) => HoldsName(p)
         /\ (CalledOk(p, "IDAdd") /\ ~Called(p, "IDDelete")) => id[p] \in sandboxIDIndex
         /\ (CalledOk(p, "MkdirAll") /\ ~Called(p, "RemoveAll"))
              => getSandboxRootDir(id[p]) \in fs
         /\ Generated(p) =>
              spec[p].cgroups_path = Append(GetCgroupParent(GetLinux(config[p])), id[p])
         /\ (CalledOk(p, "Create") /\ ~Called(p, "Delete")) => id[p] \in DOMAIN containers
         /\ Succeeded(p) =>
              /\ retRes[p] = id[p]
              /\ id[p] \in DOMAIN sandboxStore
              /\ sandboxStore[id[p]].ID = id[p]
  /\ \A r \in sandboxNameIndex : r[2] \in Issued
  /\ sandboxIDIndex \subseteq Issued
  /\ \A f \in fs : f[2] \in Issued
  /\ DOMAIN containers \subseteq Issued
  /\ DOMAIN sandboxStore \subseteq Issued

\* C21 witness: one call has succeeded under a cgroup parent, another has
\* failed after its container was created and has requested its Delete.
C21_Witness ==
  \E p, q \in Calls :
    /\ Succeeded(p)
    /\ spec[p].cgroups_path = << "kubepods", id[p] >>
    /\ Failed(q)
    /\ Called(q, "Delete")

\* ------------------------------------------- an identity generated twice

\* Lines 51-66 when generateID is not assumed fresh: its result is a new
\* identity or, by collision, the identity of a sandbox that is live.
ReserveColliding(p, cfg) ==
  /\ pc[p] = "idle"
  /\ \A q \in Calls : q < p => pc[q] # "idle"
  /\ Submittable(cfg)
  /\ generated < 2 ^ IDLen
  /\ \E i \in {generateID(generated)} \cup { id[q] : q \in { r \in Calls : Succeeded(r) } } :
       LET name == makeSandboxName(cfg.metadata)
           r == RegistrarReserve(sandboxNameIndex, name, i)
       IN /\ id' = [id EXCEPT ![p] = i]
          /\ generated' = generated + 1
          /\ config' = [config EXCEPT ![p] = cfg]
          /\ sandboxNameIndex' = r.index
          /\ Log(p, Ev("Reserve", name, r.ok))
          /\ IF r.ok
             THEN /\ defers' = [defers EXCEPT ![p] = << "ReleaseByName" >>]
                  /\ pc' = [pc EXCEPT ![p] = "idadd"]
                  /\ UNCHANGED retErr
             ELSE /\ retErr' = [retErr EXCEPT ![p] = "reserve"]
                  /\ pc' = [pc EXCEPT ![p] = "done"]
                  /\ UNCHANGED defers
  /\ UNCHANGED << spec, removed, retRes, ctxDone, fifo, sandboxIDIndex, fs, containers,
                  sandboxStore, nextPid, faults >>

\* One caller whose calls follow one another, with an identity generator
\* that may collide.
CollideNext ==
  \E p \in Calls :
    \/ Quiet /\ \E cfg \in Configs : ReserveColliding(p, cfg)
    \/ IDAdd(p)
    \/ MkdirAll(p)
    \/ OpenFifo(p)
    \/ \E which \in {"stdout", "stderr"} : Drain(p, which)
    \/ Create(p)
    \/ Start(p)
    \/ StoreCreate(p)
    \/ DeferDelete(p)
    \/ DeferClose(p)
    \/ DeferRemoveAll(p)
    \/ DeferIDDelete(p)
    \/ DeferReleaseByName(p)
    \/ Cancel(p)

SpecCollide == Init /\ [][CollideNext]_vars

\* The call was given the identity of a sandbox that another call created
\* and that is live.
Collides(p, q) == q # p /\ pc[p] # "idle" /\ Succeeded(q) /\ id[q] = id[p]

\* Everything the successful call q created is in place.
Intact(q) ==
  LET dir == getSandboxRootDir(id[q])
  IN /\ HoldsName(q)
     /\ id[q] \in sandboxIDIndex
     /\ {dir, stdoutPipe(dir), stderrPipe(dir)} \subseteq fs
     /\ id[q] \in DOMAIN containers
     /\ containers[id[q]].status = "started"
     /\ id[q] \in DOMAIN sandboxStore
     /\ sandboxStore[id[q]].Name = Name(q)
     /\ sandboxStore[id[q]].Config = config[q]

\* C22: a call whose identity collides with a live sandbox fails at the ID
\* index Add, makes no other collaborator call than the release of its own
\* name, and changes nothing of the live sandbox: its name, its entry in the
\* ID index, its directory, its container and its record stay.
C22_CollisionTouchesNothing ==
  /\ [](\A p, q \in Calls :
          Collides(p, q) =>
            /\ Intact(q)
            /\ Called(p, "IDAdd") => CalledFailed(p, "IDAdd")
            /\ Returned(p) =>
                 /\ retErr[p] \in {"reserve", "idadd"}
                 /\ retErr[p] = "idadd" =>
                      Ops(p) = << "Reserve", "IDAdd", "ReleaseByName" >>)
  /\ [][\A p, q \in Calls :
          (Collides(p, q) /\ trace'[p] # trace[p]) =>
            /\ UNCHANGED << sandboxIDIndex, fs, containers, sandboxStore >>
            /\ Makes(p, "ReleaseByName", TRUE) => ~RegistrarHas(sandboxNameIndex', Name(p))
            /\ \A r \in sandboxNameIndex : r[1] # Name(p) => r \in sandboxNameIndex'
            /\ \A r \in sandboxNameIndex' : r[1] # Name(p) => r \in sandboxNameIndex]_vars

\* C22 witness: a call has failed at the ID index Add on the identity of a
\* live sandbox and has returned.
C22_Witness ==
  \E p, q \in Calls :
    /\ Collides(p, q)
    /\ Returned(p)
    /\ CalledFailed(p, "IDAdd")
    /\ Called(p, "ReleaseByName")

\* The call has made the collaborator call op with the argument arg (and it
\* succeeded).
CalledWith(p, op, arg) ==
  \E k \in 1 .. Len(trace[p]) : trace[p][k].op = op /\ trace[p][k].arg = arg

CalledOkWith(p, op, arg) ==
  \E k \in 1 .. Len(trace[p]) : trace[p][k] = Ev(op, arg, TRUE)

\* The compensable forward steps of a call with their arguments, each with
\* its compensation.
Pairs(p) ==
  LET dir == getSandboxRootDir(id[p])
  IN { << "Reserve", "ReleaseByName", Name(p) >>,
       << "IDAdd", "IDDelete", id[p] >>,
       << "MkdirAll", "RemoveAll", dir >>,
       << "OpenFifo", "Close", stdoutPipe(dir) >>,
       << "OpenFifo", "Close", stderrPipe(dir) >>,
       << "Create", "Delete", id[p] >> }

\* C23: a compensation runs if and only if its own forward step completed
\* in the same call and the call returns an error, and then once: a call
\* that loses the reservation of the name makes no other collaborator call,
\* so that the name stays with the call that reserved it until that call
\* releases it; RemoveAll does not follow a failed MkdirAll nor Delete a
\* failed Create; and a successful call runs no compensation: its name,
\* identity, directory, pipes and container remain.
C23_CompensationIffCompleted ==
  \A p \in Calls :
    pc[p] # "idle" =>
      LET comps == Compensations(p)
          dir == getSandboxRootDir(id[p])
      IN /\ \A x \in Pairs(p) :
              /\ CalledWith(p, x[2], x[3]) =>
                   CalledOkWith(p, x[1], x[3]) /\ retErr[p] # "nil"
              /\ Failed(p) =>
                   (CalledWith(p, x[2], x[3]) <=> CalledOkWith(p, x[1], x[3]))
         /\ Len(comps) <= Len(Completed(p))
         /\ \A k \in 1 .. Len(comps) :
              \E x \in Pairs(p) : comps[k].op = x[2] /\ comps[k].arg = x[3]
         /\ CalledFailed(p, "Reserve") => Len(trace[p]) = 1 /\ Failed(p)
         /\ (CalledOk(p, "Reserve") /\ ~Called(p, "ReleaseByName")) => HoldsName(p)
         /\ Succeeded(p) =>
              /\ comps = << >>
              /\ HoldsName(p)
              /\ id[p] \in sandboxIDIndex
              /\ {dir, stdoutPipe(dir), stderrPipe(dir)} \subseteq fs
              /\ id[p] \in DOMAIN containers

\* C23 witness: one call has lost the reservation of the name and returned;
\* the other, whose Create failed, has returned after removing its
\* directory.
C23_Witness ==
  \E p, q \in Calls :
    /\ Returned(p)
    /\ CalledFailed(p, "Reserve")
    /\ Failed(q)
    /\ CalledFailed(q, "Create")
    /\ CalledOk(q, "RemoveAll")
    /\ ~Called(q, "Delete")

\* The collaborator calls of a call with their arguments, in order.
OpsWithArgs(p) == [k \in 1 .. Len(trace[p]) |-> << trace[p][k].op, trace[p][k].arg >>]

\* The call has returned after the OpenFifo of the pipe failed.
FailedToOpen(p, which) ==
  /\ Returned(p)
  /\ \E k \in 1 .. Len(trace[p]) : trace[p][k] = Ev("OpenFifo", PipePath(p, which), FALSE)

C25_RecordsAreIndexed ==
  \A i \in DOMAIN sandboxStore :
    LET m == sandboxStore[i]
    IN /\ m.ID = i
       /\ i \in sandboxIDIndex
       /\ Reservations(m.Name) = { << m.Name, i >> }
       /\ \A j \in DOMAIN sandboxStore :
            j # i => sandboxStore[j].Name # m.Name /\ sandboxStore[j].ID # m.ID

\* C25 witness: two calls have succeeded and the store holds both records,
\* while failures were injected on the way.
C25_Witness ==
  /\ \E p, q \in Calls :
       /\ p # q
       /\ Succeeded(p) /\ Succeeded(q)
       /\ {id[p], id[q]} \subseteq DOMAIN sandboxStore
  /\ faults > 0

====
